---------------------------- MODULE Spec2Model ----------------------------
(***************************************************************************)
(* Model of SRAScrape: the metadata extractor, the secondary enricher, the *)
(* classifier invoker (sra_tissue_classifier.py) and the batch driver      *)
(* (augment_csv.py).                                                       *)
(*                                                                         *)
(* Python values are tagged records.  A Python str is a sequence of        *)
(* chunks (TLA+ strings); the strings whose characters the code inspects   *)
(* (strip, split) are given one character per chunk.  A raised exception   *)
(* is a result record whose exc field names the exception class.           *)
(***************************************************************************)
EXTENDS Integers, Sequences, FiniteSets, TLC

(***************************************************************************)
(* Bounds of the model.                                                    *)
(***************************************************************************)
MaxWords == 6      \* most whitespace-separated tokens in a summary value
MaxRows == 3       \* most rows of the input table
MaxLimit == 3      \* largest --limit
MaxAttrs == 2      \* most SAMPLE_ATTRIBUTE entries of a sample

(***************************************************************************)
(* Python values.                                                          *)
(***************************************************************************)
None == [t |-> "none"]
Str(s) == [t |-> "str", s |-> s]
Num(n) == [t |-> "num", n |-> n]
Bool(b) == [t |-> "bool", b |-> b]
List(xs) == [t |-> "list", xs |-> xs]
Dict(m) == [t |-> "dict", m |-> m]

EmptyMap == <<>>
EmptyStr == Str(<<>>)

\* Python truth value of a value (what `x or y` and `if x` test).
Truthy(v) ==
  CASE v.t = "none" -> FALSE
    [] v.t = "str" -> Len(v.s) > 0
    [] v.t = "num" -> v.n # 0
    [] v.t = "bool" -> v.b
    [] v.t = "list" -> Len(v.xs) > 0
    [] v.t = "dict" -> DOMAIN v.m # {}

\* `a or b`
PyOr(a, b) == IF Truthy(a) THEN a ELSE b

\* dict.get(k, default) on a mapping m
MapGet(m, k, default) == IF k \in DOMAIN m THEN m[k] ELSE default

\* The mapping with the given set of <<key, value>> pairs (keys distinct).
RECURSIVE FromPairs(_)
FromPairs(pairs) ==
  IF pairs = {} THEN EmptyMap
  ELSE LET p == CHOOSE q \in pairs : TRUE
       IN IF pairs = {p} THEN p[1] :> p[2] ELSE (p[1] :> p[2]) @@ FromPairs(pairs \ {p})

MapPut(m, k, v) == FromPairs({<<x, IF x = k THEN v ELSE m[x]>> : x \in (DOMAIN m) \cup {k}})

\* A result of a step that may raise.
Ret(v) == [exc |-> "none", val |-> v]
Raise(e) == [exc |-> e, val |-> None]

\* obj.get(k, default): AttributeError unless obj is a dict.
PyGet(obj, k, default) ==
  IF obj.t = "dict" THEN Ret(MapGet(obj.m, k, default)) ELSE Raise("AttributeError")

(***************************************************************************)
(* str.strip, str.split and str.join on character sequences.               *)
(***************************************************************************)
IsSpace(c) == c \in {" ", "\t", "\n"}

RECURSIVE LStrip(_)
LStrip(s) == IF s # <<>> /\ IsSpace(Head(s)) THEN LStrip(Tail(s)) ELSE s

RECURSIVE RStrip(_)
RStrip(s) ==
  IF s # <<>> /\ IsSpace(s[Len(s)]) THEN RStrip(SubSeq(s, 1, Len(s) - 1)) ELSE s

Strip(s) == RStrip(LStrip(s))

\* s.split(): the maximal runs of non-whitespace characters, in order.
RECURSIVE SplitFrom(_, _, _)
SplitFrom(s, cur, acc) ==
  IF s = <<>> THEN (IF cur = <<>> THEN acc ELSE Append(acc, cur))
  ELSE IF IsSpace(Head(s))
       THEN SplitFrom(Tail(s), <<>>, IF cur = <<>> THEN acc ELSE Append(acc, cur))
       ELSE SplitFrom(Tail(s), Append(cur, Head(s)), acc)

Split(s) == SplitFrom(s, <<>>, <<>>)

\* sep.join(parts)
RECURSIVE Join(_, _)
Join(sep, parts) ==
  IF parts = <<>> THEN <<>>
  ELSE IF Len(parts) = 1 THEN parts[1]
  ELSE parts[1] \o sep \o Join(sep, Tail(parts))

(***************************************************************************)
(* json.loads on a reply.  The reply text is a sequence of lexical tokens  *)
(* (whitespace between tokens is insignificant to JSON); a "word" token is *)
(* prose, which no JSON value starts with.  A string token carries the     *)
(* decoded value of its literal (a tab or newline in it was written as an  *)
(* escape in the text).                                                    *)
(***************************************************************************)
Tok(k) == [k |-> k, s |-> <<>>, n |-> 0]
StrTok(s) == [k |-> "str", s |-> s, n |-> 0]
NumTok(n) == [k |-> "num", s |-> <<>>, n |-> n]
LB == Tok("{")
RB == Tok("}")
LSQ == Tok("[")
RSQ == Tok("]")
COMMA == Tok(",")
COLON == Tok(":")
WORD == Tok("word")

POk(v, rest) == [ok |-> TRUE, val |-> v, rest |-> rest]
PFail == [ok |-> FALSE, val |-> None, rest |-> <<>>]

RECURSIVE ParseValue(_)
RECURSIVE ParseElems(_, _)
RECURSIVE ParseMembers(_, _)

ParseValue(toks) ==
  IF toks = <<>> THEN PFail
  ELSE LET h == Head(toks)
           r == Tail(toks)
       IN CASE h.k = "str" -> POk(Str(h.s), r)
            [] h.k = "num" -> POk(Num(h.n), r)
            [] h.k = "null" -> POk(None, r)
            [] h.k = "true" -> POk(Bool(TRUE), r)
            [] h.k = "false" -> POk(Bool(FALSE), r)
            [] h.k = "[" ->
                 IF r # <<>> /\ Head(r).k = "]" THEN POk(List(<<>>), Tail(r))
                 ELSE ParseElems(r, <<>>)
            [] h.k = "{" ->
                 IF r # <<>> /\ Head(r).k = "}" THEN POk(Dict(EmptyMap), Tail(r))
                 ELSE ParseMembers(r, EmptyMap)
            [] OTHER -> PFail

ParseElems(toks, acc) ==
  LET p == ParseValue(toks)
  IN IF ~p.ok \/ p.rest = <<>> THEN PFail
     ELSE IF Head(p.rest).k = "," THEN ParseElems(Tail(p.rest), Append(acc, p.val))
     ELSE IF Head(p.rest).k = "]" THEN POk(List(Append(acc, p.val)), Tail(p.rest))
     ELSE PFail

\* A repeated key keeps its last value, as in json.loads.
ParseMembers(toks, acc) ==
  IF Len(toks) < 3 \/ toks[1].k # "str" \/ toks[2].k # ":" THEN PFail
  ELSE LET p == ParseValue(SubSeq(toks, 3, Len(toks)))
       IN IF ~p.ok \/ p.rest = <<>> THEN PFail
          ELSE IF Head(p.rest).k = ","
               THEN ParseMembers(Tail(p.rest), MapPut(acc, toks[1].s, p.val))
          ELSE IF Head(p.rest).k = "}"
               THEN POk(Dict(MapPut(acc, toks[1].s, p.val)), Tail(p.rest))
          ELSE PFail

\* json.loads(text): raises (ok = FALSE) on no value or on extra data.
JsonLoads(toks) ==
  LET p == ParseValue(toks)
  IN IF p.ok /\ p.rest = <<>> THEN [ok |-> TRUE, val |-> p.val]
     ELSE [ok |-> FALSE, val |-> None]

\* text.find(c) and text.rfind(c): 0-based index, -1 when absent.
Find(toks, c) ==
  IF \E i \in 1..Len(toks) : toks[i] = c
  THEN (CHOOSE i \in 1..Len(toks) : toks[i] = c /\ \A j \in 1..(i - 1) : toks[j] # c) - 1
  ELSE -1

RFind(toks, c) ==
  IF \E i \in 1..Len(toks) : toks[i] = c
  THEN (CHOOSE i \in 1..Len(toks) :
          toks[i] = c /\ \A j \in (i + 1)..Len(toks) : toks[j] # c) - 1
  ELSE -1

\* text[a:b] for 0 <= a <= b
Slice(toks, a, b) == SubSeq(toks, a + 1, IF b > Len(toks) THEN Len(toks) ELSE b)

(***************************************************************************)
(* call_gemini (sra_tissue_classifier.py, lines 144-174).                  *)
(***************************************************************************)
MaxSummaryWords == 5

K_SUMMARY == <<"summary_5_words">>
K_TISSUE == <<"tissue_guess">>
K_LINK == <<"srx_link">>

\* The dict both except branches assign to data (lines 164 and 166).
DegradedData == Dict(FromPairs({<<K_SUMMARY, EmptyStr>>, <<K_TISSUE, EmptyStr>>}))

\* Line 152: text = resp.text or ""
ReplyText(t) == IF Truthy(t) THEN t.s ELSE <<>>

\* Lines 155-157: json.loads(text)
LoadsWhole(text) == JsonLoads(text)

\* Lines 158-166: the except branch, from the first "{" to the last "}".
LoadsBraces(text) ==
  LET start == Find(text, LB)
      end == RFind(text, RB)
  IN IF start # -1 /\ end # -1 /\ end > start
     THEN LET sub == JsonLoads(Slice(text, start, end + 1))
          IN IF sub.ok THEN [data |-> sub.val, strategy |-> "braces"]
             ELSE [data |-> DegradedData, strategy |-> "fallback"]
     ELSE [data |-> DegradedData, strategy |-> "fallback"]

\* Lines 155-166 together.
ParseReply(text) ==
  LET whole == LoadsWhole(text)
  IN IF whole.ok THEN [data |-> whole.val, strategy |-> "whole"]
     ELSE LoadsBraces(text)

\* (data.get(key) or "").strip(): AttributeError when data has no get, or
\* when the value is truthy and has no strip.
FieldStripped(data, key) ==
  LET g == PyGet(data, key, None)
  IN IF g.exc # "none" THEN g
     ELSE LET v == PyOr(g.val, EmptyStr)
          IN IF v.t = "str" THEN Ret(Str(Strip(v.s))) ELSE Raise("AttributeError")

\* The cap written with >= for >: a summary of exactly five words is rejoined.
CapWordsMut(summary) ==
  IF summary # <<>>
  THEN LET words == Split(summary)
       IN IF Len(words) >= MaxSummaryWords
          THEN Join(<<" ">>, SubSeq(words, 1, MaxSummaryWords))
          ELSE summary
  ELSE summary

\* Lines 169-172: the cap on the number of words.
CapWords(summary) ==
  IF summary # <<>>
  THEN LET words == Split(summary)
       IN IF Len(words) > MaxSummaryWords
          THEN Join(<<" ">>, SubSeq(words, 1, MaxSummaryWords))
          ELSE summary
  ELSE summary

\* Lines 167-174.
NormalizeReply(data) ==
  LET a == FieldStripped(data, K_SUMMARY)
  IN IF a.exc # "none" THEN a
     ELSE LET b == FieldStripped(data, K_TISSUE)
          IN IF b.exc # "none" THEN b
             ELSE Ret(Dict(FromPairs({ <<K_SUMMARY, Str(CapWords(a.val.s))>>,
                                       <<K_TISSUE, b.val>> })))

\* The whole of call_gemini: avail is "genai is not None", backend is what
\* model.generate_content does (a reply text, or an exception).
CallGemini(avail, backend) ==
  IF ~avail THEN Raise("RuntimeError")
  ELSE IF backend.exc # "none" THEN Raise(backend.exc)
  ELSE NormalizeReply(ParseReply(ReplyText(backend.text)).data)

(***************************************************************************)
(* Replies of the backend that the model draws from.                       *)
(***************************************************************************)
Letters == <<"a", "b", "c", "d", "e", "f", "g", "h">>
Letter(i) == Letters[((i - 1) % Len(Letters)) + 1]

RECURSIVE WordsFrom(_, _, _)
WordsFrom(i, n, wide) ==
  IF i > n THEN <<>>
  ELSE <<Letter(i)>>
       \o (IF i < n THEN (IF i = wide THEN <<" ", "\t">> ELSE <<" ">>) ELSE <<>>)
       \o WordsFrom(i + 1, n, wide)

MkSummary(n, lead, trail, wide) ==
  (IF lead THEN <<" ">> ELSE <<>>) \o WordsFrom(1, n, wide)
    \o (IF trail THEN <<"\n">> ELSE <<>>)

SummaryStrs ==
  {MkSummary(n, l, t, w) : n \in 0..MaxWords, l \in BOOLEAN, t \in BOOLEAN, w \in {0, 1, 5}}

NonStrToks ==
  { <<Tok("null")>>, <<NumTok(0)>>, <<NumTok(5)>>, <<Tok("true")>>, <<Tok("false")>>,
    <<LSQ, RSQ>>, <<LSQ, StrTok(<<"a">>), RSQ>>, <<LB, RB>>,
    <<LB, StrTok(<<"k">>), COLON, NumTok(1), RB>> }

MISSING == <<Tok("missing")>>

SummaryToks == {<<StrTok(s)>> : s \in SummaryStrs} \cup NonStrToks \cup {MISSING}

TissueToks ==
  { <<StrTok(<<"liver">>)>>, <<StrTok(<<" ", "liver", " ">>)>>, <<StrTok(<<>>)>>, MISSING,
    <<Tok("null")>>, <<NumTok(5)>>, <<LSQ, StrTok(<<"a">>), RSQ>> }

Member(key, v) == <<StrTok(key), COLON>> \o v

\* The text of a JSON object with the given field values (MISSING: no such key).
ObjText(sv, tv) ==
  <<LB>>
    \o (IF sv = MISSING THEN <<>> ELSE Member(K_SUMMARY, sv))
    \o (IF sv # MISSING /\ tv # MISSING THEN <<COMMA>> ELSE <<>>)
    \o (IF tv = MISSING THEN <<>> ELSE Member(K_TISSUE, tv))
    \o <<RB>>

GoodObj == ObjText(<<StrTok(MkSummary(6, FALSE, FALSE, 0))>>, <<StrTok(<<"liver">>)>>)

ObjTexts == {ObjText(sv, tv) : sv \in SummaryToks, tv \in TissueToks}

NonObjTexts ==
  { <<NumTok(5)>>, <<NumTok(0)>>, <<StrTok(<<"a">>)>>, <<StrTok(<<>>)>>, <<Tok("null")>>,
    <<Tok("true")>>, <<Tok("false")>>, <<LSQ, RSQ>>, <<LSQ, NumTok(1), COMMA, NumTok(2), RSQ>>,
    <<LSQ>> \o GoodObj \o <<RSQ>> }

MalformedTexts ==
  { <<>>, <<WORD>>, <<LB>>, <<RB>>, <<RB, LB>>, <<LB, StrTok(K_SUMMARY), COLON, RB>>,
    <<LB, StrTok(K_SUMMARY), RB>>, <<LB>> \o Member(K_SUMMARY, <<StrTok(<<"a">>)>>),
    GoodObj \o GoodObj, GoodObj \o <<WORD>> \o GoodObj, <<LB>> \o GoodObj,
    <<LB, StrTok(K_SUMMARY), COLON, StrTok(<<"a">>), COMMA, StrTok(K_SUMMARY), COLON,
      StrTok(<<"b">>), RB>>,
    <<LSQ, NumTok(1), COMMA, RSQ>>, <<NumTok(5), NumTok(5)>> }

Prose == {<<>>, <<WORD>>}

ReplyTexts ==
  {p \o b \o q : p \in Prose, q \in Prose, b \in ObjTexts \cup NonObjTexts \cup MalformedTexts}

BackendOk(text) == [exc |-> "none", text |-> text]
BackendRaises == [exc |-> "TransportError", text |-> None]

Backends == {BackendOk(Str(t)) : t \in ReplyTexts} \cup {BackendOk(None), BackendRaises}

(***************************************************************************)
(* extract_metadata_from_sra_xml (sra_tissue_classifier.py, lines 35-112). *)
(* The record xmltodict.parse returns is a dict of dicts, lists, strs and  *)
(* None.  Dict keys are strs.                                              *)
(***************************************************************************)
K(name) == <<name>>
EmptyDict == Dict(EmptyMap)

\* An insertion-ordered dict (attrs): a sequence of key/value items.
OrdKeys(items) == {items[i].k : i \in 1..Len(items)}
OrdGet(items, key) ==
  IF key \in OrdKeys(items)
  THEN items[CHOOSE i \in 1..Len(items) : items[i].k = key].v
  ELSE None
RECURSIVE OrdReplace(_, _, _)
OrdReplace(items, key, val) ==
  IF items = <<>> THEN <<>>
  ELSE <<IF Head(items).k = key THEN [k |-> key, v |-> val] ELSE Head(items)>>
       \o OrdReplace(Tail(items), key, val)
\* attrs[key] = val: a key already there keeps its place.
OrdPut(items, key, val) ==
  IF key \in OrdKeys(items) THEN OrdReplace(items, key, val)
  ELSE Append(items, [k |-> key, v |-> val])
OrdDict(items) == [t |-> "odict", items |-> items]

\* str.lower on the chunks the model uses.
LowerChunk(c) ==
  CASE c = "Tissue" -> "tissue"
    [] c = "TISSUE_TYPE" -> "tissue_type"
    [] c = "Cell_Type" -> "cell_type"
    [] OTHER -> c
RECURSIVE Lower(_)
Lower(s) == IF s = <<>> THEN <<>> ELSE <<LowerChunk(Head(s))>> \o Lower(Tail(s))

\* f"{v}"
Fmt(v) ==
  CASE v.t = "str" -> v.s
    [] v.t = "none" -> <<"None">>
    [] OTHER -> <<"<repr>">>

\* r.get(k, default) where r is the result of an earlier step.
Then(r, k, default) == IF r.exc # "none" THEN r ELSE PyGet(r.val, k, default)

\* The first exception among the results of steps taken in order.
RECURSIVE FirstExc(_)
FirstExc(rs) ==
  IF rs = <<>> THEN "none"
  ELSE IF Head(rs).exc # "none" THEN Head(rs).exc
  ELSE FirstExc(Tail(rs))

\* What `for x in v` iterates over.
RECURSIVE Chars(_)
Chars(s) == IF s = <<>> THEN <<>> ELSE <<Str(<<Head(s)>>)>> \o Chars(Tail(s))
IterItems(v) ==
  CASE v.t = "list" -> v.xs
    [] v.t = "str" -> Chars(v.s)
    [] OTHER -> <<>>

\* Lines 58-63: the first EXTERNAL_ID whose @namespace is "BioSample".
RECURSIVE ScanExternal(_)
ScanExternal(xs) ==
  IF xs = <<>> THEN Ret(None)
  ELSE LET ns == PyGet(Head(xs), K("@namespace"), None)
       IN IF ns.exc # "none" THEN ns
          ELSE IF ns.val = Str(K("BioSample")) THEN PyGet(Head(xs), K("#text"), None)
          ELSE ScanExternal(Tail(xs))

Biosample(external_ids) ==
  IF Truthy(external_ids)
  THEN ScanExternal(IF external_ids.t = "list" THEN external_ids.xs ELSE <<external_ids>>)
  ELSE Ret(None)

\* Lines 74-79: the loop over SAMPLE_ATTRIBUTE; a dict iterates over its keys.
RECURSIVE AttrLoop(_, _)
AttrLoop(xs, attrs) ==
  IF xs = <<>> THEN Ret(OrdDict(attrs))
  ELSE LET tag == PyGet(Head(xs), K("TAG"), None)
           val == PyGet(Head(xs), K("VALUE"), None)
       IN IF tag.exc # "none" THEN tag
          ELSE IF ~Truthy(tag.val) THEN AttrLoop(Tail(xs), attrs)
          ELSE IF tag.val.t # "str" THEN Raise("AttributeError")
          ELSE AttrLoop(Tail(xs), OrdPut(attrs, Lower(tag.val.s), val.val))

DictKeysAsItems(v) ==
  LET ks == DOMAIN v.m
      RECURSIVE Enum(_)
      Enum(S) == IF S = {} THEN <<>>
                 ELSE LET x == CHOOSE y \in S : TRUE IN <<Str(x)>> \o Enum(S \ {x})
  IN Enum(ks)

Attributes(sample) ==
  LET holder == PyOr(MapGet(sample.m, K("SAMPLE_ATTRIBUTES"), EmptyDict), EmptyDict)
      got == PyGet(holder, K("SAMPLE_ATTRIBUTE"), List(<<>>))
  IN IF got.exc # "none" THEN got
     ELSE LET it == PyOr(got.val, List(<<>>))
          IN AttrLoop(IF it.t = "dict" THEN DictKeysAsItems(it) ELSE IterItems(it), <<>>)

\* The aliases looked up in the other order.
AliasMut(attrs, first, second) == PyOr(OrdGet(attrs, second), OrdGet(attrs, first))

\* Lines 81-83: attrs.get(first) or attrs.get(second)
Alias(attrs, first, second) == PyOr(OrdGet(attrs, first), OrdGet(attrs, second))

\* Lines 86-97.
RECURSIVE AttrParts(_)
AttrParts(items) ==
  IF items = <<>> THEN <<>>
  ELSE <<Head(items).k \o <<": ">> \o Fmt(Head(items).v)>> \o AttrParts(Tail(items))

Labelled(label, v) == IF Truthy(v) THEN <<<<label>> \o Fmt(v)>> ELSE <<>>

MetadataText(study_title, study_abstract, sample_title, organism, attrs) ==
  Join(<<"\n">>,
       Labelled("Study title: ", study_title) \o Labelled("Study abstract: ", study_abstract)
         \o Labelled("Sample title: ", sample_title) \o Labelled("Organism: ", organism)
         \o AttrParts(attrs))

MetaKeys ==
  { K("srx"), K("srs"), K("biosample"), K("sample_title"), K("study_title"),
    K("study_abstract"), K("organism"), K("tissue"), K("cell_type"), K("cell_line"),
    K("attributes"), K("metadata_text") }

\* Lines 47-112, for a package that passed line 44.
ExtractPackage(pkg) ==
  LET experiment == PyGet(pkg, K("EXPERIMENT"), EmptyDict)
      sample == PyGet(pkg, K("SAMPLE"), EmptyDict)
      study == PyGet(pkg, K("STUDY"), EmptyDict)
      srx == Then(experiment, K("@accession"), None)
      srs == Then(sample, K("@accession"), None)
      identifiers == Then(sample, K("IDENTIFIERS"), EmptyDict)
      external_ids == Then(identifiers, K("EXTERNAL_ID"), None)
      biosample == IF external_ids.exc # "none" THEN external_ids
                   ELSE Biosample(external_ids.val)
      sample_title == Then(sample, K("TITLE"), None)
      descriptor == Then(study, K("DESCRIPTOR"), EmptyDict)
      study_title == Then(descriptor, K("STUDY_TITLE"), None)
      study_abstract == Then(descriptor, K("STUDY_ABSTRACT"), None)
      sample_name == Then(sample, K("SAMPLE_NAME"), EmptyDict)
      organism == Then(sample_name, K("SCIENTIFIC_NAME"), None)
      attrs == IF sample.exc # "none" THEN sample ELSE Attributes(sample.val)
      exc == FirstExc(<<experiment, sample, study, srx, srs, identifiers, external_ids,
                        biosample, sample_title, descriptor, study_title, study_abstract,
                        sample_name, organism, attrs>>)
  IN IF exc # "none" THEN Raise(exc)
     ELSE LET a == attrs.val.items
          IN Ret(Dict(FromPairs({<<k,
               CASE k = K("srx") -> srx.val
                 [] k = K("srs") -> srs.val
                 [] k = K("biosample") -> biosample.val
                 [] k = K("sample_title") -> sample_title.val
                 [] k = K("study_title") -> study_title.val
                 [] k = K("study_abstract") -> study_abstract.val
                 [] k = K("organism") -> organism.val
                 [] k = K("tissue") -> Alias(a, K("tissue"), K("tissue_type"))
                 [] k = K("cell_type") -> Alias(a, K("cell_type"), K("celltype"))
                 [] k = K("cell_line") -> Alias(a, K("cell_line"), K("cell-line"))
                 [] k = K("attributes") -> attrs.val
                 [] k = K("metadata_text") ->
                      Str(MetadataText(study_title.val, study_abstract.val,
                                       sample_title.val, organism.val, a))>> :
               k \in MetaKeys})))

\* Lines 41-45, then the rest.
ExtractMetadata(sra_xml) ==
  LET set == PyGet(sra_xml, K("EXPERIMENT_PACKAGE_SET"), EmptyDict)
      pkg0 == Then(set, K("EXPERIMENT_PACKAGE"), None)
      pkg == IF pkg0.exc # "none" THEN pkg0
             ELSE IF pkg0.val.t = "list"
                  THEN (IF Len(pkg0.val.xs) = 0 THEN Raise("IndexError")
                        ELSE Ret(pkg0.val.xs[1]))
                  ELSE pkg0
  IN IF pkg.exc # "none" THEN pkg
     ELSE IF ~Truthy(pkg.val) THEN Ret(EmptyDict)
     ELSE ExtractPackage(pkg.val)

(***************************************************************************)
(* try_fetch_biosample_json, the merge of its result, build_prompt,        *)
(* srx_link and classify_row (sra_tissue_classifier.py lines 115-178,      *)
(* augment_csv.py lines 16-43).                                            *)
(***************************************************************************)
\* What requests.get and resp.json() do for the BioSample request.
NetRaises == [exc |-> "ConnectionError", status |-> 0, json_ok |-> FALSE, json |-> None]
NetStatus(code) == [exc |-> "none", status |-> code, json_ok |-> FALSE, json |-> None]
NetBadJson == [exc |-> "none", status |-> 200, json_ok |-> FALSE, json |-> None]
NetJson(v) == [exc |-> "none", status |-> 200, json_ok |-> TRUE, json |-> v]

\* sra_tissue_classifier.py lines 115-127: None unless the request returned
\* status 200 and a body that parses.
TryFetchBiosampleJson(biosample_accession, net) ==
  IF ~Truthy(biosample_accession) THEN None
  ELSE IF net.exc # "none" THEN None
  ELSE IF net.status = 200 THEN (IF net.json_ok THEN net.json ELSE None)
  ELSE None

EnrichKeys == <<"organism", "isolation_source", "tissue", "cell_type", "cell_line">>

\* augment_csv.py lines 27-31: the parts list, bs being a dict.
RECURSIVE EnrichParts(_, _)
EnrichParts(bs, keys) ==
  IF keys = <<>> THEN <<>>
  ELSE LET v == MapGet(bs.m, K(Head(keys)), None)
       IN (IF v.t = "str" /\ Len(v.s) > 0 THEN <<K(Head(keys)) \o <<": ">> \o v.s>> ELSE <<>>)
          \o EnrichParts(bs, Tail(keys))

\* The merge without its try/except: bs.get on a value that is no dict
\* raises out of classify_row.
MergeBiosampleMut(metadata_text, biosample_json) ==
  IF ~Truthy(biosample_json) THEN Ret(metadata_text)
  ELSE IF biosample_json.t # "dict" THEN Raise("AttributeError")
  ELSE LET parts == EnrichParts(biosample_json, EnrichKeys)
       IN IF parts # <<>>
          THEN Ret(Str(metadata_text.s \o <<"\n">> \o Join(<<"\n">>, parts)))
          ELSE Ret(metadata_text)

\* augment_csv.py lines 24-35: the new metadata_text.  bs.get on a value
\* that is no dict raises inside the try, and the except passes.
MergeBiosample(metadata_text, biosample_json) ==
  IF ~Truthy(biosample_json) THEN Ret(metadata_text)
  ELSE IF biosample_json.t # "dict" THEN Ret(metadata_text)
  ELSE LET parts == EnrichParts(biosample_json, EnrichKeys)
       IN IF parts # <<>>
          THEN Ret(Str(metadata_text.s \o <<"\n">> \o Join(<<"\n">>, parts)))
          ELSE Ret(metadata_text)

\* sra_tissue_classifier.py lines 130-141.
PromptHead ==
  << "You are analyzing scRNA-seq sample metadata to determine tissue/cell-type of origin.\n",
     "From the metadata below, produce:\n",
     "1) a five-word summary of the sample's tissue or cell type of origin;\n",
     "2) the best-guess tissue type as a single concise noun phrase.\n",
     "Return strict JSON with keys: summary_5_words, tissue_guess.\n\n",
     "Metadata:\n" >>
BuildPrompt(metadata) ==
  PromptHead \o Fmt(MapGet(metadata.m, K("metadata_text"), EmptyStr)) \o <<"\n">>

\* sra_tissue_classifier.py lines 177-178.
SrxLink(srx) == Str(<<"https://www.ncbi.nlm.nih.gov/sra/?term=">> \o Fmt(srx))

\* classify_row without the check of an empty meta.
MetaCheckMut(meta) == Ret(meta)

\* augment_csv.py lines 20-21.
MetaCheck(meta) == IF ~Truthy(meta) THEN Raise("RuntimeError") ELSE Ret(meta)

\* augment_csv.py lines 39-43.
ShapeOutput(meta, srx, resp) ==
  Dict(FromPairs({ <<K_LINK, SrxLink(PyOr(MapGet(meta.m, K("srx"), None), srx))>>,
                   <<K_SUMMARY, MapGet(resp.m, K_SUMMARY, EmptyStr)>>,
                   <<K_TISSUE, MapGet(resp.m, K_TISSUE, EmptyStr)>> }))

\* classify_row as a whole: fetched is what fetch_sra_xml_for_srx does
\* (a record or an exception), net what the BioSample request does, reply
\* what the backend does.
ClassifyRow(srx, avail, fetched, net, reply) ==
  IF fetched.exc # "none" THEN fetched
  ELSE LET ex == ExtractMetadata(fetched.val)
           meta == IF ex.exc # "none" THEN ex ELSE MetaCheck(ex.val)
       IN IF meta.exc # "none" THEN meta
          ELSE LET bs == TryFetchBiosampleJson(MapGet(meta.val.m, K("biosample"), None), net)
                   merged == MergeBiosample(MapGet(meta.val.m, K("metadata_text"), EmptyStr), bs)
               IN IF merged.exc # "none" THEN merged
                  ELSE LET resp == CallGemini(avail, reply)
                       IN IF resp.exc # "none" THEN resp
                          ELSE Ret(ShapeOutput(meta.val, srx, resp.val))

(***************************************************************************)
(* Raw archive records that the model draws from.                          *)
(***************************************************************************)
ABSENT == [t |-> "absent"]

\* A dict from a set of <<key, value>> pairs; a pair whose value is ABSENT
\* stands for a key the dict does not have.
MkDict(pairs) ==
  LET present == {p \in pairs : p[2] # ABSENT}
  IN Dict(FromPairs(present))

TagVals ==
  { Str(K("tissue")), Str(K("Tissue")), Str(K("tissue_type")), Str(K("cell_type")),
    Str(K("celltype")), Str(K("cell_line")), Str(K("cell-line")), None }
ValueVals == {Str(K("liver")), Str(K("lung")), EmptyStr, None}

AttrChoices == {MkDict({<<K("TAG"), t>>, <<K("VALUE"), v>>}) : t \in TagVals, v \in ValueVals}

BioSampleId == MkDict({<<K("@namespace"), Str(K("BioSample"))>>, <<K("#text"), Str(K("SAMN1"))>>})
GeoId == MkDict({<<K("@namespace"), Str(K("GEO"))>>, <<K("#text"), Str(K("GSM1"))>>})
ExternalIds(x) == MkDict({<<K("EXTERNAL_ID"), x>>})

ExperimentVals == {ABSENT, None, EmptyDict, MkDict({<<K("@accession"), Str(K("SRX1"))>>})}
IdentifierVals ==
  { ABSENT, None, EmptyDict, ExternalIds(BioSampleId), ExternalIds(GeoId),
    ExternalIds(List(<<GeoId, BioSampleId>>)), ExternalIds(Str(K("SAMN1"))) }
TitleVals == {ABSENT, Str(K("sample A"))}
StudyVals ==
  { ABSENT, MkDict({<<K("DESCRIPTOR"), EmptyDict>>}),
    MkDict({<<K("DESCRIPTOR"),
              MkDict({<<K("STUDY_TITLE"), Str(K("T"))>>, <<K("STUDY_ABSTRACT"), Str(K("A"))>>})>>}) }
OneAttr == MkDict({<<K("TAG"), Str(K("Tissue"))>>, <<K("VALUE"), Str(K("liver"))>>})
AttrHolder(x) == MkDict({<<K("SAMPLE_ATTRIBUTE"), x>>})
HolderVals == {ABSENT, None, AttrHolder(OneAttr), AttrHolder(List(<<OneAttr>>))}

Package(experiment, identifiers, title, holder, study) ==
  MkDict({ <<K("EXPERIMENT"), experiment>>,
           <<K("SAMPLE"),
             MkDict({ <<K("@accession"), Str(K("SRS1"))>>, <<K("IDENTIFIERS"), identifiers>>,
                      <<K("TITLE"), title>>,
                      <<K("SAMPLE_NAME"),
                        MkDict({<<K("SCIENTIFIC_NAME"), Str(K("Homo sapiens"))>>})>>,
                      <<K("SAMPLE_ATTRIBUTES"), holder>> })>>,
           <<K("STUDY"), study>> })

FullExperiment == MkDict({<<K("@accession"), Str(K("SRX1"))>>})

Packages ==
  {Package(e, i, t, h, s) :
     e \in ExperimentVals, i \in IdentifierVals, t \in TitleVals, h \in HolderVals,
     s \in StudyVals}

\* A package whose sample has the given list of attributes.
AttrPackage(al) == Package(FullExperiment, ABSENT, ABSENT, AttrHolder(List(al)), ABSENT)

PackageSet(x) == MkDict({<<K("EXPERIMENT_PACKAGE_SET"), MkDict({<<K("EXPERIMENT_PACKAGE"), x>>})>>})

\* Records with no experiment package.
NoPackageRecords ==
  { EmptyDict,
    MkDict({<<K("EXPERIMENT_PACKAGE_SET"), None>>}),
    MkDict({<<K("EXPERIMENT_PACKAGE_SET"), EmptyDict>>}),
    PackageSet(None),
    PackageSet(List(<<>>)) }

RawRecords ==
  NoPackageRecords
    \cup {PackageSet(p) : p \in Packages}
    \cup {PackageSet(List(<<p>>)) : p \in Packages}
    \cup {PackageSet(List(<<Package(FullExperiment, ABSENT, ABSENT, ABSENT, ABSENT), EmptyDict>>)),
          PackageSet(Str(K("text")))}

(***************************************************************************)
(* Inputs of classify_row that the model draws from.                       *)
(***************************************************************************)
FullStudy ==
  MkDict({<<K("DESCRIPTOR"),
            MkDict({<<K("STUDY_TITLE"), Str(K("T"))>>, <<K("STUDY_ABSTRACT"), Str(K("A"))>>})>>})

\* A package whose sample has a BioSample id and nothing that renders as text.
BarePackage ==
  MkDict({<<K("SAMPLE"), MkDict({<<K("IDENTIFIERS"), ExternalIds(BioSampleId)>>})>>})

RowRecords ==
  NoPackageRecords
    \cup { PackageSet(Package(FullExperiment, ExternalIds(BioSampleId), Str(K("sample A")),
                              AttrHolder(List(<<OneAttr>>)), FullStudy)),
           PackageSet(Package(ABSENT, ABSENT, ABSENT, ABSENT, ABSENT)),
           PackageSet(List(<<Package(FullExperiment, ExternalIds(List(<<GeoId, BioSampleId>>)),
                                      ABSENT, None, ABSENT)>>)),
           PackageSet(Package(FullExperiment, ExternalIds(GeoId), ABSENT, AttrHolder(OneAttr),
                              ABSENT)),
           PackageSet(BarePackage) }

FetchRaises == Raise("HTTPError")
FetchOutcomes == {FetchRaises} \cup {Ret(r) : r \in RowRecords}

BioRecord ==
  MkDict({ <<K("organism"), Str(K("Homo sapiens"))>>, <<K("isolation_source"), EmptyStr>>,
           <<K("tissue"), Str(K("liver"))>>, <<K("cell_type"), Num(5)>>,
           <<K("cell_line"), None>> })

NetOutcomes ==
  { NetRaises, NetStatus(404), NetStatus(500), NetBadJson,
    NetJson(BioRecord), NetJson(MkDict({<<K("accession"), Str(K("SAMN1"))>>})),
    NetJson(MkDict({<<K("tissue"), List(<<Str(K("liver"))>>)>>})),
    NetJson(EmptyDict), NetJson(None), NetJson(List(<<>>)), NetJson(List(<<BioRecord>>)),
    NetJson(Str(K("not found"))), NetJson(Num(5)) }

RowBackends ==
  { BackendRaises, BackendOk(None), BackendOk(Str(GoodObj)),
    BackendOk(Str(<<WORD>> \o ObjText(<<StrTok(K("kidney"))>>, MISSING) \o <<WORD>>)),
    BackendOk(Str(<<WORD, WORD>>)), BackendOk(Str(<<NumTok(5)>>)) }

Accessions == {Str(K("SRX1")), Str(K("SRX2"))}

(***************************************************************************)
(* The batch driver, augment_csv.main (augment_csv.py lines 46-86).  A row *)
(* is the mapping csv.DictReader yields: a value per header name, None for *)
(* a field the line lacks, and the surplus fields of a line longer than    *)
(* the header as a list under the key None (RestKey).                      *)
(***************************************************************************)
RestKey == K("<None>")
NewCols == <<K_LINK, K_SUMMARY, K_TISSUE>>

InSeq(x, seq) == \E j \in 1..Len(seq) : seq[j] = x

\* Line 62: fieldnames + [c for c in new_cols if c not in fieldnames]
NotInFieldnames(fieldnames, c) == ~InSeq(c, fieldnames)
AugmentedFields(fieldnames) ==
  fieldnames \o SelectSeq(NewCols, LAMBDA c : NotInFieldnames(fieldnames, c))

\* Line 60: first_col = fieldnames[0] if fieldnames else None
\* Line 68: srx = (row.get(first_col) or "").strip() if first_col else ""
RowSrx(fieldnames, row) ==
  IF fieldnames = <<>> THEN EmptyStr
  ELSE Str(Strip(PyOr(MapGet(row, fieldnames[1], None), EmptyStr).s))

\* Line 66: if i > args.limit: break
PastLimit(i, limit) == i > limit

\* Line 73: out.update(res)
Update(out, res) ==
  FromPairs({<<k, IF k \in DOMAIN res THEN res[k] ELSE out[k]>> :
               k \in (DOMAIN out) \cup (DOMAIN res)})

\* The except branch assigning "" where the code calls setdefault.
SetDefaultsMut(out) ==
  FromPairs({<<k, IF k \in {K_LINK, K_SUMMARY, K_TISSUE} THEN EmptyStr ELSE out[k]>> :
               k \in (DOMAIN out) \cup {K_LINK, K_SUMMARY, K_TISSUE}})

\* Lines 76-77: for c in new_cols: out.setdefault(c, "")
SetDefaults(out) ==
  FromPairs({<<k, IF k \in DOMAIN out THEN out[k] ELSE EmptyStr>> :
               k \in (DOMAIN out) \cup {K_LINK, K_SUMMARY, K_TISSUE}})

\* Lines 69-77: the row collected for one input row; res is what
\* classify_row did, and is not looked at when srx is blank.
Augment(row, srx_value, res) ==
  IF ~Truthy(srx_value) THEN row
  ELSE IF res.exc = "none" THEN Update(row, res.val.m)
  ELSE SetDefaults(row)

\* The text csv writes for a value: nothing for None.
CellText(v) == IF v.t = "none" THEN EmptyStr ELSE Str(Fmt(v))

\* csv.DictWriter.writerow: ValueError for a key that is no field name, the
\* empty string for a field the row lacks.
RowWritable(fields, r) == \A k \in DOMAIN r : InSeq(k, fields)
WrittenRow(fields, r) ==
  FromPairs({<<fields[j], CellText(MapGet(r, fields[j], EmptyStr))>> : j \in 1..Len(fields)})

\* Lines 80-84: the rows written before the first one writerow rejects.
RECURSIVE WriteRows(_, _)
WriteRows(fields, rs) ==
  IF rs = <<>> THEN <<>>
  ELSE IF ~RowWritable(fields, Head(rs)) THEN <<>>
  ELSE <<WrittenRow(fields, Head(rs))>> \o WriteRows(fields, Tail(rs))

(***************************************************************************)
(* Input tables and remote behaviour that the batch model draws from.      *)
(***************************************************************************)
PlainHeader == <<K("srx"), K("note")>>
ClashHeader == <<K("srx"), K("tissue_guess"), K("summary_5_words"), K("srx_link")>>
Headers == {PlainHeader, ClashHeader}

\* The row of a line: its first len fields under the header names, None for
\* the names past them, and surplus fields, if any, under RestKey.
MkRow(header, len, id, surplus) ==
  FromPairs({<<k, IF k = RestKey THEN List(<<Str(K("surplus"))>>)
                  ELSE IF k = header[1] THEN id
                  ELSE IF \E j \in 1..len : header[j] = k THEN Str(K("old value"))
                  ELSE None>> :
               k \in {header[j] : j \in 1..Len(header)} \cup (IF surplus THEN {RestKey} ELSE {})})

RowChoices(header) ==
  { MkRow(header, Len(header), Str(K("SRX1")), FALSE),
    MkRow(header, 2, Str(<<" ", "SRX2", " ">>), FALSE),
    MkRow(header, Len(header), Str(<<" ">>), FALSE),
    MkRow(header, Len(header), Str(K("SRX3")), TRUE) }

BatchEnvs ==
  { [fetched |-> FetchRaises, net |-> NetRaises, reply |-> BackendRaises],
    [fetched |-> Ret(PackageSet(Package(FullExperiment, ExternalIds(BioSampleId),
                                        Str(K("sample A")), AttrHolder(List(<<OneAttr>>)),
                                        FullStudy))),
     net |-> NetJson(BioRecord), reply |-> BackendOk(Str(GoodObj))],
    [fetched |-> Ret(PackageSet(Package(ABSENT, ABSENT, ABSENT, ABSENT, ABSENT))),
     net |-> NetRaises, reply |-> BackendOk(Str(<<WORD, WORD>>))],
    [fetched |-> Ret(PackageSet(BarePackage)), net |-> NetStatus(404), reply |-> BackendRaises] }

(***************************************************************************)
(* State.                                                                  *)
(***************************************************************************)
VARIABLES
  genai,      \* the module-level genai is not None
  gpc,        \* call_gemini: position ("call", "loads", "braces", "normalize", "returned", "raised")
  backend,    \* call_gemini: what model.generate_content does
  text,       \* call_gemini: local text
  data,       \* call_gemini: local data
  strategy,   \* call_gemini: which branch assigned data
  gret,       \* call_gemini: what the call returned or raised
  xpc,        \* extract_metadata_from_sra_xml: position ("call", "returned", "raised")
  sra_xml,    \* extract_metadata_from_sra_xml: the argument
  xret,       \* extract_metadata_from_sra_xml: what the call returned or raised
  rpc,        \* classify_row: position
  srx,        \* classify_row: the argument
  meta,       \* classify_row: local meta
  prompt,     \* classify_row: local prompt
  resp,       \* classify_row: local resp
  rret,       \* classify_row: what the call returned or raised
  env,        \* classify_row: what the three remote calls did, once made
  pre_text,   \* classify_row: metadata_text as extraction left it
  trace,      \* classify_row: the steps taken so far, in order
  mpc,        \* main: position ("start", "loop", "write", "done", "exit", "aborted")
  api_key,    \* main: args.api_key is set
  limit,      \* main: args.limit
  nrows,      \* main: the number of rows of the input table
  fieldnames, \* main: the header of the input table
  augmented_fields, \* main: the header of the output table
  i,          \* main: the loop counter (rows read so far)
  rows_in,    \* main: the input rows processed so far
  outcomes,   \* main: per processed row, whether classify_row was called and what it did
  rows_out,   \* main: the rows collected for writing
  written     \* main: the rows written to the output table

gvars == <<gpc, backend, text, data, strategy, gret>>
xvars == <<xpc, sra_xml, xret>>
rvars == <<rpc, srx, meta, prompt, resp, rret, env, pre_text, trace>>
mvars == <<mpc, api_key, limit, nrows, fieldnames, augmented_fields, i, rows_in, outcomes,
           rows_out, written>>
vars == <<genai, gvars, xvars, rvars, mvars>>

GeminiIdle ==
  /\ gpc = "idle"
  /\ backend = BackendRaises
  /\ text = <<>>
  /\ data = None
  /\ strategy = "none"
  /\ gret = Ret(None)

ExtractIdle ==
  /\ xpc = "idle"
  /\ sra_xml = EmptyDict
  /\ xret = Ret(None)

NoEnv == [fetched |-> Ret(None), net |-> NetRaises, reply |-> BackendRaises]

RowIdle ==
  /\ rpc = "idle"
  /\ srx = EmptyStr
  /\ meta = EmptyDict
  /\ prompt = <<>>
  /\ resp = EmptyDict
  /\ rret = Ret(None)
  /\ env = NoEnv
  /\ pre_text = EmptyStr
  /\ trace = <<>>

MainIdle ==
  /\ mpc = "idle"
  /\ api_key = TRUE
  /\ limit = 0
  /\ nrows = 0
  /\ fieldnames = <<>>
  /\ augmented_fields = <<>>
  /\ i = 0
  /\ rows_in = <<>>
  /\ outcomes = <<>>
  /\ rows_out = <<>>
  /\ written = <<>>

(***************************************************************************)
(* call_gemini, one action per block of the function.                      *)
(***************************************************************************)
GeminiInit ==
  /\ gpc = "call"
  /\ genai \in BOOLEAN
  /\ backend \in Backends
  /\ text = <<>>
  /\ data = None
  /\ strategy = "none"
  /\ gret = Ret(None)
  /\ ExtractIdle
  /\ RowIdle
  /\ MainIdle

\* Lines 145-152.
GeminiInvoke ==
  /\ gpc = "call"
  /\ IF ~genai
     THEN gpc' = "raised" /\ gret' = Raise("RuntimeError") /\ text' = text
     ELSE IF backend.exc # "none"
     THEN gpc' = "raised" /\ gret' = Raise(backend.exc) /\ text' = text
     ELSE gpc' = "loads" /\ gret' = gret /\ text' = ReplyText(backend.text)
  /\ UNCHANGED <<genai, backend, data, strategy, xvars, rvars, mvars>>

\* Lines 155-157.
GeminiLoadsWhole ==
  /\ gpc = "loads"
  /\ LET whole == LoadsWhole(text)
     IN IF whole.ok
        THEN gpc' = "normalize" /\ data' = whole.val /\ strategy' = "whole"
        ELSE gpc' = "braces" /\ UNCHANGED <<data, strategy>>
  /\ UNCHANGED <<genai, backend, text, gret, xvars, rvars, mvars>>

\* Lines 158-166.
GeminiLoadsBraces ==
  /\ gpc = "braces"
  /\ LET r == LoadsBraces(text)
     IN data' = r.data /\ strategy' = r.strategy
  /\ gpc' = "normalize"
  /\ UNCHANGED <<genai, backend, text, gret, xvars, rvars, mvars>>

\* Lines 167-174.
GeminiNormalize ==
  /\ gpc = "normalize"
  /\ gret' = NormalizeReply(data)
  /\ gpc' = IF gret'.exc = "none" THEN "returned" ELSE "raised"
  /\ UNCHANGED <<genai, backend, text, data, strategy, xvars, rvars, mvars>>

GeminiNext == GeminiInvoke \/ GeminiLoadsWhole \/ GeminiLoadsBraces \/ GeminiNormalize

SpecGemini == GeminiInit /\ [][GeminiNext]_vars

(***************************************************************************)
(* extract_metadata_from_sra_xml applied to a raw record.                  *)
(***************************************************************************)
ExtractInit ==
  /\ xpc = "call"
  /\ \/ sra_xml \in RawRecords
     \/ \E n \in 0..MaxAttrs : \E al \in [1..n -> AttrChoices] :
          sra_xml = PackageSet(AttrPackage(al))
  /\ xret = Ret(None)
  /\ genai = TRUE
  /\ GeminiIdle
  /\ RowIdle
  /\ MainIdle

ExtractCall ==
  /\ xpc = "call"
  /\ xret' = ExtractMetadata(sra_xml)
  /\ xpc' = IF xret'.exc = "none" THEN "returned" ELSE "raised"
  /\ UNCHANGED <<sra_xml, genai, gvars, rvars, mvars>>

ExtractNext == ExtractCall

SpecExtract == ExtractInit /\ [][ExtractNext]_vars

(***************************************************************************)
(* classify_row (augment_csv.py lines 16-43), one action per step.  The    *)
(* single-record command (sra_tissue_classifier.py lines 196-227) takes    *)
(* the same steps in the same order.                                       *)
(***************************************************************************)
RowInit ==
  /\ rpc = "fetch"
  /\ srx \in Accessions
  /\ genai \in BOOLEAN
  /\ meta = EmptyDict
  /\ prompt = <<>>
  /\ resp = EmptyDict
  /\ rret = Ret(None)
  /\ env = NoEnv
  /\ pre_text = EmptyStr
  /\ trace = <<>>
  /\ GeminiIdle
  /\ ExtractIdle
  /\ MainIdle

RowRaise(r) ==
  /\ rpc' = "raised"
  /\ rret' = Raise(r.exc)

\* Line 18: sra_xml = fetch_sra_xml_for_srx(srx)
RowFetch ==
  /\ rpc = "fetch"
  /\ \E f \in FetchOutcomes :
       /\ env' = [env EXCEPT !.fetched = f]
       /\ IF f.exc # "none" THEN RowRaise(f) ELSE rpc' = "extract" /\ rret' = rret
  /\ trace' = Append(trace, "fetch")
  /\ UNCHANGED <<srx, meta, prompt, resp, pre_text, genai, gvars, xvars, mvars>>

\* Lines 19-21: extract, and RuntimeError on an empty result.
RowExtract ==
  /\ rpc = "extract"
  /\ LET ex == ExtractMetadata(env.fetched.val)
         m == IF ex.exc # "none" THEN ex ELSE MetaCheck(ex.val)
     IN IF m.exc # "none"
        THEN RowRaise(m) /\ UNCHANGED <<meta, pre_text>>
        ELSE /\ rpc' = "enrich"
             /\ rret' = rret
             /\ meta' = m.val
             /\ pre_text' = MapGet(m.val.m, K("metadata_text"), EmptyStr)
  /\ trace' = Append(trace, "extract")
  /\ UNCHANGED <<srx, prompt, resp, env, genai, gvars, xvars, mvars>>

\* Lines 23-35: the BioSample lookup and the merge of what it returned.
RowEnrich ==
  /\ rpc = "enrich"
  /\ \E n \in NetOutcomes :
       LET accession == MapGet(meta.m, K("biosample"), None)
           biosample_json == TryFetchBiosampleJson(accession, n)
           merged == MergeBiosample(MapGet(meta.m, K("metadata_text"), EmptyStr), biosample_json)
       IN /\ env' = [env EXCEPT !.net = n]
          /\ trace' = trace \o (IF Truthy(accession) THEN <<"lookup", "request">>
                                ELSE <<"lookup">>)
          /\ IF merged.exc # "none"
             THEN RowRaise(merged) /\ meta' = meta
             ELSE /\ rpc' = "prompt"
                  /\ rret' = rret
                  /\ meta' = Dict(MapPut(meta.m, K("metadata_text"), merged.val))
  /\ UNCHANGED <<srx, prompt, resp, pre_text, genai, gvars, xvars, mvars>>

\* Line 37: prompt = build_prompt(meta)
RowPrompt ==
  /\ rpc = "prompt"
  /\ prompt' = BuildPrompt(meta)
  /\ rpc' = "classify"
  /\ trace' = Append(trace, "prompt")
  /\ UNCHANGED <<srx, meta, resp, rret, env, pre_text, genai, gvars, xvars, mvars>>

\* Line 38: resp = call_gemini(prompt, api_key)
RowClassify ==
  /\ rpc = "classify"
  /\ \E b \in RowBackends :
       LET r == CallGemini(genai, b)
       IN /\ env' = [env EXCEPT !.reply = b]
          /\ IF r.exc # "none"
             THEN RowRaise(r) /\ resp' = resp
             ELSE rpc' = "shape" /\ rret' = rret /\ resp' = r.val
  /\ trace' = trace \o (IF genai THEN <<"classify", "backend">> ELSE <<"classify">>)
  /\ UNCHANGED <<srx, meta, prompt, pre_text, genai, gvars, xvars, mvars>>

\* Lines 39-43: the returned dict.
RowShape ==
  /\ rpc = "shape"
  /\ rret' = Ret(ShapeOutput(meta, srx, resp))
  /\ rpc' = "returned"
  /\ trace' = Append(trace, "shape")
  /\ UNCHANGED <<srx, meta, prompt, resp, env, pre_text, genai, gvars, xvars, mvars>>

RowNext == RowFetch \/ RowExtract \/ RowEnrich \/ RowPrompt \/ RowClassify \/ RowShape

SpecRow == RowInit /\ [][RowNext]_vars

(***************************************************************************)
(* augment_csv.main: the start, one action per loop iteration, the write.  *)
(***************************************************************************)
MainInit ==
  /\ mpc = "start"
  /\ genai = TRUE
  /\ api_key \in BOOLEAN
  /\ limit \in -1..MaxLimit
  /\ \/ fieldnames = <<>> /\ nrows = 0
     \/ fieldnames \in Headers /\ nrows \in 0..MaxRows
  /\ augmented_fields = <<>>
  /\ i = 0
  /\ rows_in = <<>>
  /\ outcomes = <<>>
  /\ rows_out = <<>>
  /\ written = <<>>
  /\ GeminiIdle
  /\ ExtractIdle
  /\ RowIdle

\* Lines 54-64: SystemExit without an API key; else the header is read and
\* the output header computed.
MainStart ==
  /\ mpc = "start"
  /\ IF ~api_key
     THEN mpc' = "exit" /\ augmented_fields' = augmented_fields
     ELSE mpc' = "loop" /\ augmented_fields' = AugmentedFields(fieldnames)
  /\ UNCHANGED <<api_key, limit, nrows, fieldnames, i, rows_in, outcomes, rows_out, written,
                 genai, gvars, xvars, rvars>>

NotCalled == [called |-> FALSE, res |-> Ret(None)]

\* Lines 65-78: one iteration: the reader is exhausted, or the row read is
\* past the limit, or the row is classified and collected.
MainLoop ==
  /\ mpc = "loop"
  /\ IF i >= nrows
     THEN mpc' = "write" /\ UNCHANGED <<i, rows_in, outcomes, rows_out>>
     ELSE IF PastLimit(i + 1, limit)
     THEN mpc' = "write" /\ i' = i + 1 /\ UNCHANGED <<rows_in, outcomes, rows_out>>
     ELSE \E row \in RowChoices(fieldnames) :
            LET srx_value == RowSrx(fieldnames, row)
            IN \E e \in (IF Truthy(srx_value) THEN BatchEnvs ELSE {NoEnv}) :
                 LET res == IF Truthy(srx_value)
                            THEN ClassifyRow(srx_value, genai, e.fetched, e.net, e.reply)
                            ELSE Ret(None)
                 IN /\ mpc' = "loop"
                    /\ i' = i + 1
                    /\ rows_in' = Append(rows_in, row)
                    /\ outcomes' = Append(outcomes, IF Truthy(srx_value)
                                                    THEN [called |-> TRUE, res |-> res]
                                                    ELSE NotCalled)
                    /\ rows_out' = Append(rows_out, Augment(row, srx_value, res))
  /\ UNCHANGED <<api_key, limit, nrows, fieldnames, augmented_fields, written,
                 genai, gvars, xvars, rvars>>

\* Lines 80-86: the output table; writerow raises ValueError for a row with
\* a key outside the output header.
MainWrite ==
  /\ mpc = "write"
  /\ written' = WriteRows(augmented_fields, rows_out)
  /\ mpc' = IF Len(written') = Len(rows_out) THEN "done" ELSE "aborted"
  /\ UNCHANGED <<api_key, limit, nrows, fieldnames, augmented_fields, i, rows_in, outcomes,
                 rows_out, genai, gvars, xvars, rvars>>

Next == MainStart \/ MainLoop \/ MainWrite

Init == MainInit

Spec == Init /\ [][Next]_vars

(***************************************************************************)
(* Claims about call_gemini, checked under SpecGemini.                     *)
(***************************************************************************)
GeminiDone == gpc \in {"returned", "raised"}
BackendReplied == genai /\ backend.exc = "none"
IsStrField(d, k) == d.t = "dict" /\ k \in DOMAIN d.m /\ d.m[k].t = "str"
ResultField(k) == gret.val.m[k]

\* C3: with the backend available and a reply received, call_gemini never
\* raises, whatever the reply text is; it returns summary_5_words and
\* tissue_guess as strings, both empty when neither parse produced an object.
C3_NeverRaisesOnReplyContent ==
  BackendReplied =>
    /\ gpc # "raised"
    /\ gpc = "returned" =>
         /\ \A k \in {K_SUMMARY, K_TISSUE} : IsStrField(gret.val, k)
         /\ strategy = "fallback" => \A k \in {K_SUMMARY, K_TISSUE} : ResultField(k) = EmptyStr

\* C7: a string summary_5_words of more than 5 whitespace-separated tokens
\* is returned as its first 5 tokens joined by single spaces; one of 5 or
\* fewer tokens is returned unchanged apart from the trim; the returned
\* summary never has more than 5 tokens.
C7_SummaryWordCap ==
  (gpc = "returned" /\ IsStrField(data, K_SUMMARY)) =>
    LET v == data.m[K_SUMMARY].s
        toks == Split(v)
        out == ResultField(K_SUMMARY).s
    IN /\ Len(toks) > 5 => out = Join(<<" ">>, SubSeq(toks, 1, 5))
       /\ Len(toks) <= 5 => out = Strip(v)
       /\ Len(Split(out)) <= 5
       /\ \A n \in 0..MaxWords, l \in BOOLEAN, t \in BOOLEAN, w \in {0, 1, 5} :
            v = MkSummary(n, l, t, w) =>
              out = IF n > 5 THEN <<"a", " ", "b", " ", "c", " ", "d", " ", "e">>
                    ELSE MkSummary(n, FALSE, FALSE, w)

\* C7 witness: a six-token summary with a wide gap and padding was cut to
\* five tokens.
C7_Witness ==
  /\ gpc = "returned"
  /\ IsStrField(data, K_SUMMARY)
  /\ data.m[K_SUMMARY].s = MkSummary(6, TRUE, TRUE, 1)
  /\ ResultField(K_SUMMARY).s = <<"a", " ", "b", " ", "c", " ", "d", " ", "e">>

\* C8: when the reply parsed to an object, each expected field that is
\* missing or is not a string comes back as the empty string, and the call
\* does not raise.
C8_NonStringFieldsToEmpty ==
  (GeminiDone /\ data.t = "dict") =>
    /\ gpc = "returned"
    /\ \A k \in {K_SUMMARY, K_TISSUE} : ~IsStrField(data, k) => ResultField(k) = EmptyStr

\* C10: the whole reply is parsed first and the first-"{"-to-last-"}"
\* substring only after that failed and only with "}" after "{"; a prose reply
\* embedding one JSON object is classified from that object; a reply with no
\* braces yields both fields empty without an exception.
C10_ParseStrategyOrder ==
  /\ strategy = "whole" => data = JsonLoads(text).val /\ JsonLoads(text).ok
  /\ strategy = "braces" =>
       /\ ~JsonLoads(text).ok
       /\ Find(text, LB) # -1 /\ RFind(text, RB) > Find(text, LB)
       /\ data = JsonLoads(Slice(text, Find(text, LB), RFind(text, RB) + 1)).val
  /\ \A obj \in ObjTexts :
       (strategy # "none" /\ text = <<WORD>> \o obj \o <<WORD>>) =>
          strategy = "braces" /\ data = JsonLoads(obj).val
  /\ (BackendReplied /\ GeminiDone /\ Find(text, LB) = -1 /\ Find(text, RB) = -1) =>
       /\ gpc = "returned"
       /\ \A k \in {K_SUMMARY, K_TISSUE} : ResultField(k) = EmptyStr

(***************************************************************************)
(* Claims about extract_metadata_from_sra_xml, checked under SpecExtract.  *)
(***************************************************************************)
\* The record holds no experiment package: no package-set key, an empty or
\* null package set, no package key, a null package or an empty package list.
NoPackage(record) ==
  \/ K("EXPERIMENT_PACKAGE_SET") \notin DOMAIN record.m
  \/ LET set == record.m[K("EXPERIMENT_PACKAGE_SET")]
     IN \/ set = None
        \/ /\ set.t = "dict"
           /\ \/ K("EXPERIMENT_PACKAGE") \notin DOMAIN set.m
              \/ set.m[K("EXPERIMENT_PACKAGE")] \in {None, List(<<>>)}

\* C5: for every raw record with no experiment package the extractor
\* returns the empty structure and raises nothing.
C5_NoPackageGivesEmpty ==
  (xpc \in {"returned", "raised"} /\ NoPackage(sra_xml)) =>
    (xpc = "returned" /\ xret.val = EmptyDict)

AliasLists ==
  { <<K("tissue"), K("tissue"), K("tissue_type")>>,
    <<K("cell_type"), K("cell_type"), K("celltype")>>,
    <<K("cell_line"), K("cell_line"), K("cell-line")>> }

Extracted == xpc = "returned" /\ xret.val # EmptyDict
ExtractedAttrs == xret.val.m[K("attributes")].items

\* C9 as stated: the first alias present as a key gives the field its value,
\* whatever the value; the second alias counts only when the first is absent.
C9_FirstAliasPresentWins ==
  Extracted =>
    \A al \in AliasLists :
      LET field == xret.val.m[al[1]]
      IN /\ al[2] \in OrdKeys(ExtractedAttrs) => field = OrdGet(ExtractedAttrs, al[2])
         /\ (al[2] \notin OrdKeys(ExtractedAttrs) /\ al[3] \in OrdKeys(ExtractedAttrs)) =>
              field = OrdGet(ExtractedAttrs, al[3])
         /\ (al[2] \notin OrdKeys(ExtractedAttrs) /\ al[3] \notin OrdKeys(ExtractedAttrs)) =>
              field = None

NonEmpty(v) == v # None /\ v # EmptyStr

\* C9 amended: the first alias gives the field its value when that value is
\* not empty (neither None nor ""); otherwise the field takes the second
\* alias's value, which is None when the second alias is absent.
C9_FirstNonEmptyAliasWins ==
  Extracted =>
    \A al \in AliasLists :
      LET field == xret.val.m[al[1]]
          firstHit == \E j \in 1..Len(ExtractedAttrs) :
                        ExtractedAttrs[j].k = al[2] /\ NonEmpty(ExtractedAttrs[j].v)
      IN /\ firstHit => \E j \in 1..Len(ExtractedAttrs) :
                          ExtractedAttrs[j].k = al[2] /\ field = ExtractedAttrs[j].v
         /\ (~firstHit /\ al[3] \in OrdKeys(ExtractedAttrs)) =>
              \E j \in 1..Len(ExtractedAttrs) :
                ExtractedAttrs[j].k = al[3] /\ field = ExtractedAttrs[j].v
         /\ (~firstHit /\ al[3] \notin OrdKeys(ExtractedAttrs)) => field = None

\* C9 witness: tissue is present with an empty value, tissue_type holds
\* "liver", and the tissue field is "liver".
C9_Witness ==
  /\ Extracted
  /\ K("tissue") \in OrdKeys(ExtractedAttrs)
  /\ OrdGet(ExtractedAttrs, K("tissue")) = EmptyStr
  /\ OrdGet(ExtractedAttrs, K("tissue_type")) = Str(K("liver"))
  /\ xret.val.m[K("tissue")] = Str(K("liver"))

(***************************************************************************)
(* Claims about classify_row, checked under SpecRow.                       *)
(***************************************************************************)
Elems(seq) == {seq[j] : j \in 1..Len(seq)}
IsPrefix(a, b) == Len(a) <= Len(b) /\ SubSeq(b, 1, Len(a)) = a
IsRemote(step) == step \in {"request", "backend"}
IsStep(step) == ~IsRemote(step)
StepOrder == <<"fetch", "extract", "lookup", "prompt", "classify", "shape">>
LastStep == LET steps == SelectSeq(trace, IsStep) IN steps[Len(steps)]
MetadataTextNow == MapGet(meta.m, K("metadata_text"), EmptyStr)

\* The BioSample lookup was made and failed: the request raised, returned a
\* status other than 200, returned a body that does not parse, or returned a
\* value that is no mapping.
EnrichmentFailed ==
  /\ "request" \in Elems(trace)
  /\ \/ env.net.exc # "none"
     \/ env.net.status # 200
     \/ ~env.net.json_ok
     \/ env.net.json.t # "dict"

\* C4: enrichment never ends the call: after the lookup the call is at prompt
\* building, and only the classifier can still raise; when the lookup failed,
\* metadata_text (and so the prompt) is what extraction left; in every case
\* the text after enrichment starts with the text before it.
C4_EnrichmentNeverAborts ==
  "lookup" \in Elems(trace) =>
    /\ LastStep = "lookup" => rpc = "prompt"
    /\ rpc = "raised" => LastStep = "classify"
    /\ IsPrefix(pre_text.s, MetadataTextNow.s)
    /\ EnrichmentFailed =>
         /\ MetadataTextNow = pre_text
         /\ "prompt" \in Elems(trace) => prompt = PromptHead \o pre_text.s \o <<"\n">>

\* C4 witness: the lookup returned a list, not a mapping, and the call
\* returned a result.
C4_Witness ==
  /\ rpc = "returned"
  /\ EnrichmentFailed
  /\ env.net = NetJson(List(<<BioRecord>>))
  /\ rret.val.m[K_SUMMARY] # EmptyStr

\* The error a step of classify_row raises, given what the remote calls did.
FetchError == env.fetched.exc
ExtractionEmpty ==
  /\ "extract" \in Elems(trace)
  /\ ExtractMetadata(env.fetched.val) = Ret(EmptyDict)

\* C6: the steps run in the order fetch, extract, enrich, prompt, classify,
\* shape, each at most once; an error of fetch, extraction or classification
\* ends the call with that error and no later step; after a failed fetch or
\* an empty extraction neither the BioSample request nor the backend is called.
C6_StepOrderAndPropagation ==
  /\ IsPrefix(SelectSeq(trace, IsStep), StepOrder)
  /\ \A j \in 1..Len(trace) :
       /\ trace[j] = "request" => (j > 1 /\ trace[j - 1] = "lookup")
       /\ trace[j] = "backend" => (j > 1 /\ trace[j - 1] = "classify")
  /\ ("fetch" \in Elems(trace) /\ FetchError # "none") =>
       (rpc = "raised" /\ rret = Raise(FetchError) /\ trace = <<"fetch">>)
  /\ ExtractionEmpty =>
       (rpc = "raised" /\ rret = Raise("RuntimeError") /\ trace = <<"fetch", "extract">>)
  /\ ("classify" \in Elems(trace) /\ CallGemini(genai, env.reply).exc # "none") =>
       (rpc = "raised" /\ rret = Raise(CallGemini(genai, env.reply).exc)
          /\ LastStep = "classify")
  /\ rpc = "raised" => LastStep \in {"fetch", "extract", "classify"}

\* C6 witness: extraction came back empty and the call ended with
\* RuntimeError right after the extract step.
C6_Witness ==
  /\ rpc = "raised"
  /\ ExtractionEmpty
  /\ rret = Raise("RuntimeError")
  /\ trace = <<"fetch", "extract">>

\* The steps taken one by one end as classify_row taken as a whole.
RowStepsAgree ==
  rpc \in {"returned", "raised"} => rret = ClassifyRow(srx, genai, env.fetched, env.net, env.reply)

(***************************************************************************)
(* Claims about augment_csv.main, checked under Spec.                      *)
(***************************************************************************)
NewColSet == {K_LINK, K_SUMMARY, K_TISSUE}
Failed(j) == outcomes[j].called /\ outcomes[j].res.exc # "none"
Succeeded(j) == outcomes[j].called /\ outcomes[j].res.exc = "none"
Min(a, b) == IF a <= b THEN a ELSE b

C2_BatchNeverAborts ==
  limit >= 0 =>
    /\ mpc # "aborted"
    /\ mpc = "done" =>
         /\ Len(written) = Min(nrows, limit)
         /\ \A j \in 1..Len(written) :
              /\ \A k \in (DOMAIN rows_in[j]) \ NewColSet :
                   written[j][k] = CellText(rows_in[j][k])
              /\ Succeeded(j) =>
                   \A c \in NewColSet : written[j][c] = outcomes[j].res.val.m[c]
              /\ written[j] = WrittenRow(augmented_fields,
                                         Augment(rows_in[j], RowSrx(fieldnames, rows_in[j]),
                                                 outcomes[j].res))

=============================================================================
